---- MODULE Spec2Model ----
(***************************************************************************)
(* Model of the lighthouse monitoring stack: the GUI service               *)
(* (src/gui/server.js) with its in-memory job registry `activeJobs`, the   *)
(* audit engine service (src/lighthouse/server.js) and the relational      *)
(* store they share (src/unnamed/part_000, src/db/init.sql).               *)
(*                                                                         *)
(* Node runs each service on one event loop: a handler runs without        *)
(* interruption from one `await` to the next.  Every action below is one   *)
(* such uninterrupted segment, or one statement executed by the store.     *)
(***************************************************************************)
EXTENDS Integers, Sequences, FiniteSets, TLC

\* ---------------------------------------------------------------- bounds
MaxClients == 2
MaxRequests == 2
MaxRuns == 2

ClientIds == 1..MaxClients
Slots == 1..MaxRequests
RunSlots == 1..MaxRuns

\* ------------------------------------------------------- cron expressions
NULL == "NULL"
EveryFive == "*/5 * * * *"
NightlyAt3 == "0 3 * * *"
NotACron == "not-a-cron"
EmptyExpr == ""

ValidExprs == {EveryFive, NightlyAt3}

\* cron.validate(expression) of node-cron: TRUE for a well-formed expression.
CronValidate(e) == e \in ValidExprs
RequestExprs == {EveryFive, NightlyAt3, NotACron, EmptyExpr}
StoredSchedules == {NULL, EveryFive, NotACron}

\* ------------------------------------------------------------------ state
VARIABLES
  clients,     \* store, table clients: id -> row (present = the row exists)
  activeJobs,  \* the Map activeJobs: client id -> index of its task, 0 = no entry
  timers,      \* every task cron.schedule ever returned: [client, expr, live]
  boot,        \* the start-up IIFE: waitForDb, initSchedules, app.listen
  reqs,        \* the GUI's HTTP requests in flight, per connection slot
  lastResp,    \* the response the GUI sent last
  issued,      \* number of HTTP requests received so far
  audits,      \* store, table audits: id -> row (ids are SERIAL, never reused)
  runs         \* the calls of runAuditForClient and the engine's audit requests

vars == <<clients, activeJobs, timers, boot, reqs, lastResp, issued, audits, runs>>

NoClient ==
  [present |-> FALSE, name |-> NULL, url |-> NULL, platform |-> "both",
   schedule |-> NULL, enabled |-> FALSE]

NoRequest ==
  [kind |-> "none", client |-> 0, pc |-> "idle", expr |-> NULL, enabled |-> FALSE]

NoResponse ==
  [kind |-> "none", client |-> 0, status |-> 0, error |-> "", jobActive |-> FALSE]

\* ----------------------------------------------------------- job registry

\* activeJobs.has(clientId)
isActive(jobs, c) == jobs[c] # 0

StopJobKeepTimer(jobs, tms, c) ==
  IF jobs[c] # 0
    THEN [jobs |-> [jobs EXCEPT ![c] = 0], tms |-> tms]
    ELSE [jobs |-> jobs, tms |-> tms]

StopJobKeepEntry(jobs, tms, c) ==
  IF jobs[c] # 0
    THEN [jobs |-> jobs, tms |-> [tms EXCEPT ![jobs[c]].live = FALSE]]
    ELSE [jobs |-> jobs, tms |-> tms]

\* function stopJob(clientId)
stopJob(jobs, tms, c) ==
  IF jobs[c] # 0
    THEN [jobs |-> [jobs EXCEPT ![c] = 0],
          tms |-> [tms EXCEPT ![jobs[c]].live = FALSE]]
    ELSE [jobs |-> jobs, tms |-> tms]

StartJobNoReplace(jobs, tms, c, e) ==
  IF ~CronValidate(e)
    THEN [jobs |-> jobs, tms |-> tms, threw |-> TRUE]
    ELSE [jobs |-> [jobs EXCEPT ![c] = Len(tms) + 1],
          tms |-> Append(tms, [client |-> c, expr |-> e, live |-> TRUE, failed |-> 0]),
          threw |-> FALSE]

\* function startJob(clientId, expression): stopJob first, then the validation
\* (which throws), then cron.schedule and activeJobs.set.
startJob(jobs, tms, c, e) ==
  LET s == stopJob(jobs, tms, c) IN
  IF ~CronValidate(e)
    THEN [jobs |-> s.jobs, tms |-> s.tms, threw |-> TRUE]
    ELSE [jobs |-> [s.jobs EXCEPT ![c] = Len(s.tms) + 1],
          tms |-> Append(s.tms, [client |-> c, expr |-> e, live |-> TRUE, failed |-> 0]),
          threw |-> FALSE]

RECURSIVE StartAllAbortOnThrow(_, _, _, _)
StartAllAbortOnThrow(jobs, tms, rows, from) ==
  IF from > MaxClients THEN [jobs |-> jobs, tms |-> tms]
  ELSE IF from \in DOMAIN rows
    THEN LET s == startJob(jobs, tms, from, rows[from])
         IN IF s.threw THEN [jobs |-> s.jobs, tms |-> s.tms]
            ELSE StartAllAbortOnThrow(s.jobs, s.tms, rows, from + 1)
    ELSE StartAllAbortOnThrow(jobs, tms, rows, from + 1)

\* The for loop of initSchedules over result.rows (ids ascending): each row's
\* startJob runs inside its own try/catch.
RECURSIVE StartAll(_, _, _, _)
StartAll(jobs, tms, rows, from) ==
  IF from > MaxClients THEN [jobs |-> jobs, tms |-> tms]
  ELSE IF from \in DOMAIN rows
    THEN LET s == startJob(jobs, tms, from, rows[from])
         IN StartAll(s.jobs, s.tms, rows, from + 1)
    ELSE StartAll(jobs, tms, rows, from + 1)

\* SELECT id, schedule FROM clients WHERE schedule IS NOT NULL AND schedule_enabled
EnabledSchedules(cl) ==
  LET ids == {c \in ClientIds :
                cl[c].present /\ cl[c].schedule # NULL /\ cl[c].enabled}
  IN [c \in ids |-> cl[c].schedule]

\* ------------------------------------------------------------------- boot

\* initSchedules: the query succeeds, the loop starts the jobs and the count
\* is logged; then app.listen.
InitSchedules ==
  /\ boot.pc = "init"
  /\ LET rows == EnabledSchedules(clients)
         s == StartAll(activeJobs, timers, rows, 1)
     IN /\ activeJobs' = s.jobs
        /\ timers' = s.tms
        /\ boot' = [pc |-> "listening", queried |-> TRUE,
                    restored |-> Cardinality(DOMAIN rows)]
  /\ UNCHANGED <<clients, reqs, lastResp, issued, audits, runs>>

\* initSchedules: the query rejects; the outer catch logs it; then app.listen.
InitSchedulesFail ==
  /\ boot.pc = "init"
  /\ boot' = [pc |-> "listening", queried |-> FALSE, restored |-> 0]
  /\ UNCHANGED <<clients, activeJobs, timers, reqs, lastResp, issued, audits, runs>>

\* ------------------------------------------------------------ audits table

\* A row removed by ON DELETE CASCADE; its id is not given out again.
DeletedRow ==
  [client |-> 0, formFactor |-> "mobile", status |-> "deleted",
   scores |-> [k \in {"performance", "accessibility", "best_practices", "seo", "pwa"}
                 |-> <<>>],
   report |-> FALSE, error |-> NULL]

\* audits.client_id REFERENCES clients(id) ON DELETE CASCADE
CascadeDelete(au, c) ==
  [i \in DOMAIN au |-> IF au[i].client = c THEN DeletedRow ELSE au[i]]

\* ------------------------------------------------------- request plumbing

Listening == boot.pc = "listening"

CanAccept == Listening /\ issued < MaxRequests

\* A request that awaits is held by the lowest free slot.
CanIssue(s) ==
  /\ CanAccept
  /\ reqs[s].pc = "idle"
  /\ \A t \in Slots : t < s => reqs[t].pc # "idle"

NewRequest(k, c) == [NoRequest EXCEPT !.kind = k, !.client = c]

\* res.status(code).json(...)
Respond(k, c, code, msg, active) ==
  [kind |-> k, client |-> c, status |-> code, error |-> msg, jobActive |-> active]

\* ------------------------------------------------ PUT /api/clients/:id/schedule

\* A missing or malformed expression is answered 400 before any await.
PutScheduleReject(c, e) ==
  /\ CanAccept
  /\ e = EmptyExpr \/ ~CronValidate(e)
  /\ lastResp' = Respond("put", c, 400,
                         IF e = EmptyExpr THEN "expression is required"
                                          ELSE "Invalid cron expression", FALSE)
  /\ issued' = issued + 1
  /\ UNCHANGED <<clients, activeJobs, timers, boot, reqs, audits, runs>>

\* The UPDATE is executed by the store (no row matches an unknown id).
PutScheduleUpdate(s, c, e, en) ==
  /\ CanIssue(s)
  /\ e # EmptyExpr /\ CronValidate(e)
  /\ clients' = IF clients[c].present
                  THEN [clients EXCEPT ![c].schedule = e, ![c].enabled = en]
                  ELSE clients
  /\ reqs' = [reqs EXCEPT ![s] =
       [NewRequest("put", c) EXCEPT !.expr = e, !.enabled = en, !.pc = "resume"]]
  /\ issued' = issued + 1
  /\ UNCHANGED <<activeJobs, timers, boot, lastResp, audits, runs>>

\* The UPDATE rejects: 500, the registry is not touched.
PutScheduleUpdateFail(c, e) ==
  /\ CanAccept
  /\ e # EmptyExpr /\ CronValidate(e)
  /\ lastResp' = Respond("put", c, 500, "store error", FALSE)
  /\ issued' = issued + 1
  /\ UNCHANGED <<clients, activeJobs, timers, boot, reqs, audits, runs>>

PutScheduleResumeCancelling(s) ==
  /\ reqs[s].kind = "put" /\ reqs[s].pc = "resume"
  /\ LET r == reqs[s]
         st == IF r.enabled
                 THEN startJob(activeJobs, timers, r.client, r.expr)
                 ELSE stopJob(activeJobs, timers, r.client) @@ [threw |-> FALSE]
     IN /\ activeJobs' = st.jobs
        /\ timers' = st.tms
        /\ lastResp' =
             IF st.threw
               THEN Respond("put", r.client, 500, "Invalid cron expression", FALSE)
               ELSE Respond("put", r.client, 200, "", isActive(st.jobs, r.client))
        /\ runs' = [q \in DOMAIN runs |->
                      IF /\ runs[q].origin = "firing" /\ runs[q].client = r.client
                         /\ runs[q].epc \in {"insert", "audit"}
                        THEN [runs[q] EXCEPT !.epc = "done", !.gpc = "done",
                                             !.outcome = "failed"]
                        ELSE runs[q]]
  /\ reqs' = [reqs EXCEPT ![s] = NoRequest]
  /\ UNCHANGED <<clients, boot, issued, audits>>

\* After the await: startJob or stopJob, then the response.
PutScheduleResume(s) ==
  /\ reqs[s].kind = "put" /\ reqs[s].pc = "resume"
  /\ LET r == reqs[s]
         st == IF r.enabled
                 THEN startJob(activeJobs, timers, r.client, r.expr)
                 ELSE stopJob(activeJobs, timers, r.client) @@ [threw |-> FALSE]
     IN /\ activeJobs' = st.jobs
        /\ timers' = st.tms
        /\ lastResp' =
             IF st.threw
               THEN Respond("put", r.client, 500, "Invalid cron expression", FALSE)
               ELSE Respond("put", r.client, 200, "", isActive(st.jobs, r.client))
  /\ reqs' = [reqs EXCEPT ![s] = NoRequest]
  /\ UNCHANGED <<clients, boot, issued, audits, runs>>

\* --------------------------------------------- DELETE /api/clients/:id/schedule

DeleteScheduleBeginNoStop(s, c) ==
  /\ CanIssue(s)
  /\ reqs' = [reqs EXCEPT ![s] = [NewRequest("delSchedule", c) EXCEPT !.pc = "update"]]
  /\ issued' = issued + 1
  /\ UNCHANGED <<clients, activeJobs, timers, boot, lastResp, audits, runs>>

\* stopJob runs before the await of the UPDATE.
DeleteScheduleBegin(s, c) ==
  /\ CanIssue(s)
  /\ LET st == stopJob(activeJobs, timers, c)
     IN activeJobs' = st.jobs /\ timers' = st.tms
  /\ reqs' = [reqs EXCEPT ![s] = [NewRequest("delSchedule", c) EXCEPT !.pc = "update"]]
  /\ issued' = issued + 1
  /\ UNCHANGED <<clients, boot, lastResp, audits, runs>>

DeleteScheduleUpdate(s) ==
  /\ reqs[s].kind = "delSchedule" /\ reqs[s].pc = "update"
  /\ LET c == reqs[s].client
     IN /\ clients' = IF clients[c].present
                        THEN [clients EXCEPT ![c].schedule = NULL, ![c].enabled = FALSE]
                        ELSE clients
        /\ lastResp' = Respond("delSchedule", c, 200, "", FALSE)
  /\ reqs' = [reqs EXCEPT ![s] = NoRequest]
  /\ UNCHANGED <<activeJobs, timers, boot, issued, audits, runs>>

DeleteScheduleUpdateFail(s) ==
  /\ reqs[s].kind = "delSchedule" /\ reqs[s].pc = "update"
  /\ lastResp' = Respond("delSchedule", reqs[s].client, 500, "store error", FALSE)
  /\ reqs' = [reqs EXCEPT ![s] = NoRequest]
  /\ UNCHANGED <<clients, activeJobs, timers, boot, issued, audits, runs>>

\* ---------------------------------------- PATCH /api/clients/:id/schedule/toggle

ToggleSelectFail(c) ==
  /\ CanAccept
  /\ lastResp' = Respond("toggle", c, 500, "store error", FALSE)
  /\ issued' = issued + 1
  /\ UNCHANGED <<clients, activeJobs, timers, boot, reqs, audits, runs>>

ToggleNotFound(c) ==
  /\ CanAccept
  /\ ~clients[c].present
  /\ lastResp' = Respond("toggle", c, 404, "Client not found", FALSE)
  /\ issued' = issued + 1
  /\ UNCHANGED <<clients, activeJobs, timers, boot, reqs, audits, runs>>

ToggleNoSchedule(c) ==
  /\ CanAccept
  /\ clients[c].present /\ clients[c].schedule = NULL
  /\ lastResp' = Respond("toggle", c, 400, "No schedule set", FALSE)
  /\ issued' = issued + 1
  /\ UNCHANGED <<clients, activeJobs, timers, boot, reqs, audits, runs>>

\* The SELECT returns the row; newEnabled = !schedule_enabled; the UPDATE is sent.
ToggleSelect(s, c) ==
  /\ CanIssue(s)
  /\ clients[c].present /\ clients[c].schedule # NULL
  /\ reqs' = [reqs EXCEPT ![s] =
       [NewRequest("toggle", c) EXCEPT !.expr = clients[c].schedule,
                                       !.enabled = ~clients[c].enabled,
                                       !.pc = "update"]]
  /\ issued' = issued + 1
  /\ UNCHANGED <<clients, activeJobs, timers, boot, lastResp, audits, runs>>

ToggleUpdate(s) ==
  /\ reqs[s].kind = "toggle" /\ reqs[s].pc = "update"
  /\ LET c == reqs[s].client
     IN clients' = IF clients[c].present
                     THEN [clients EXCEPT ![c].enabled = reqs[s].enabled]
                     ELSE clients
  /\ reqs' = [reqs EXCEPT ![s].pc = "resume"]
  /\ UNCHANGED <<activeJobs, timers, boot, lastResp, issued, audits, runs>>

ToggleUpdateFail(s) ==
  /\ reqs[s].kind = "toggle" /\ reqs[s].pc = "update"
  /\ lastResp' = Respond("toggle", reqs[s].client, 500, "store error", FALSE)
  /\ reqs' = [reqs EXCEPT ![s] = NoRequest]
  /\ UNCHANGED <<clients, activeJobs, timers, boot, issued, audits, runs>>

\* After the await: startJob(clientId, schedule) or stopJob; a throw of startJob
\* is answered 500 by the handler's catch.
ToggleResume(s) ==
  /\ reqs[s].kind = "toggle" /\ reqs[s].pc = "resume"
  /\ LET r == reqs[s]
         st == IF r.enabled
                 THEN startJob(activeJobs, timers, r.client, r.expr)
                 ELSE stopJob(activeJobs, timers, r.client) @@ [threw |-> FALSE]
     IN /\ activeJobs' = st.jobs
        /\ timers' = st.tms
        /\ lastResp' =
             IF st.threw
               THEN Respond("toggle", r.client, 500, "Invalid cron expression", FALSE)
               ELSE Respond("toggle", r.client, 200, "", isActive(st.jobs, r.client))
  /\ reqs' = [reqs EXCEPT ![s] = NoRequest]
  /\ UNCHANGED <<clients, boot, issued, audits, runs>>

\* ---------------------------------------------------------- POST /api/clients

Platforms == {"mobile", "desktop", "both"}

\* Request bodies: NULL is a missing field.
PostNames == {NULL, "Acme", "Beta", "Gamma"}
PostUrls == {NULL, "https://a.com", "https://b.com", "not a url"}
PostPlatforms == {NULL, "mobile", "desktop", "both", "tablet"}

\* new URL(url) does not throw
UrlParses(u) == u \in {"https://a.com", "https://b.com"}

\* const { name, url, platform = "both" } = req.body
PlatformOrDefault(p) == IF p = NULL THEN "both" ELSE p

ViolatedConstraintNameOnly(cl, n, u, p) ==
  IF \E c \in ClientIds : cl[c].present /\ cl[c].name = n
    THEN "clients_name_unique"
    ELSE "none"

\* The unique constraint an INSERT of (name, url, platform) violates, "none" when
\* it violates neither; the index of clients_name_unique, created first, is
\* checked first.
ViolatedConstraint(cl, n, u, p) ==
  IF \E c \in ClientIds : cl[c].present /\ cl[c].name = n
    THEN "clients_name_unique"
  ELSE IF \E c \in ClientIds : cl[c].present /\ cl[c].url = u /\ cl[c].platform = p
    THEN "clients_url_platform_unique"
  ELSE "none"

\* id SERIAL: the id after the highest one in use.
NextClientId(cl) ==
  IF \E c \in ClientIds : cl[c].present
    THEN 1 + CHOOSE c \in ClientIds :
               cl[c].present /\ \A d \in ClientIds : cl[d].present => d <= c
    ELSE 1

\* The two 409 messages (the name and the platform are spliced in).
NameCollision == "A client named .. already exists"
PairCollision == "A .. client for this URL already exists"

\* The body passes the two checks that answer 400.
PostAccepted(n, u, p) ==
  n # NULL /\ u # NULL /\ PlatformOrDefault(p) \in Platforms

\* 400: name or url missing, or a platform outside mobile, desktop, both.
PostClientInvalid(n, u, p) ==
  /\ Listening
  /\ ~PostAccepted(n, u, p)
  /\ lastResp' = Respond("post", 0, 400,
                         IF n = NULL \/ u = NULL
                           THEN "name and url required"
                           ELSE "platform must be mobile, desktop, or both", FALSE)
  /\ UNCHANGED <<clients, activeJobs, timers, boot, reqs, issued, audits, runs>>

\* new URL(url) throws inside the try: the error has no code, the catch answers 500.
PostClientBadUrl(n, u, p) ==
  /\ Listening
  /\ PostAccepted(n, u, p) /\ ~UrlParses(u)
  /\ lastResp' = Respond("post", 0, 500, "Invalid URL", FALSE)
  /\ UNCHANGED <<clients, activeJobs, timers, boot, reqs, issued, audits, runs>>

\* The INSERT succeeds: 201 with the new row.
PostClientInsert(n, u, p) ==
  /\ Listening
  /\ PostAccepted(n, u, p) /\ UrlParses(u)
  /\ ViolatedConstraint(clients, n, u, PlatformOrDefault(p)) = "none"
  /\ NextClientId(clients) <= MaxClients
  /\ clients' = [clients EXCEPT ![NextClientId(clients)] =
       [present |-> TRUE, name |-> n, url |-> u, platform |-> PlatformOrDefault(p),
        schedule |-> NULL, enabled |-> FALSE]]
  /\ lastResp' = Respond("post", NextClientId(clients), 201, "", FALSE)
  /\ UNCHANGED <<activeJobs, timers, boot, reqs, issued, audits, runs>>

\* The INSERT is rejected with code 23505: 409 with the message of the
\* constraint that fired.
PostClientDuplicate(n, u, p) ==
  /\ Listening
  /\ PostAccepted(n, u, p) /\ UrlParses(u)
  /\ ViolatedConstraint(clients, n, u, PlatformOrDefault(p)) # "none"
  /\ lastResp' = Respond("post", 0, 409,
       IF ViolatedConstraint(clients, n, u, PlatformOrDefault(p)) = "clients_name_unique"
         THEN NameCollision
         ELSE PairCollision, FALSE)
  /\ UNCHANGED <<clients, activeJobs, timers, boot, reqs, issued, audits, runs>>

\* The INSERT is rejected for another reason: 500.
PostClientStoreFail(n, u, p) ==
  /\ Listening
  /\ PostAccepted(n, u, p) /\ UrlParses(u)
  /\ lastResp' = Respond("post", 0, 500, "store error", FALSE)
  /\ UNCHANGED <<clients, activeJobs, timers, boot, reqs, issued, audits, runs>>

\* ------------------------------------------------------ DELETE /api/clients/:id

\* stopJob(parseInt(req.params.id)) runs before the await of the DELETE.
DeleteClientBegin(s, c) ==
  /\ CanIssue(s)
  /\ LET st == stopJob(activeJobs, timers, c)
     IN activeJobs' = st.jobs /\ timers' = st.tms
  /\ reqs' = [reqs EXCEPT ![s] = [NewRequest("delClient", c) EXCEPT !.pc = "delete"]]
  /\ issued' = issued + 1
  /\ UNCHANGED <<clients, boot, lastResp, audits, runs>>

DeleteClientDelete(s) ==
  /\ reqs[s].kind = "delClient" /\ reqs[s].pc = "delete"
  /\ clients' = [clients EXCEPT ![reqs[s].client] = NoClient]
  /\ audits' = CascadeDelete(audits, reqs[s].client)
  /\ lastResp' = Respond("delClient", reqs[s].client, 200, "", FALSE)
  /\ reqs' = [reqs EXCEPT ![s] = NoRequest]
  /\ UNCHANGED <<activeJobs, timers, boot, issued, runs>>

DeleteClientDeleteFail(s) ==
  /\ reqs[s].kind = "delClient" /\ reqs[s].pc = "delete"
  /\ lastResp' = Respond("delClient", reqs[s].client, 500, "store error", FALSE)
  /\ reqs' = [reqs EXCEPT ![s] = NoRequest]
  /\ UNCHANGED <<clients, activeJobs, timers, boot, issued, audits, runs>>

\* ------------------------------------------------------- runAuditForClient

Categories == {"performance", "accessibility", "best_practices", "seo", "pwa"}

\* A nullable number: <<>> is SQL NULL / undefined, <<n>> is the number n.
NoNumber == <<>>
IsNull(x) == x = <<>>

NoScores == [k \in Categories |-> NoNumber]

\* lhr.categories of two reports (score in percent, NoNumber = the category is
\* missing from the report).
FullReport == [k \in Categories |-> IF k = "performance" THEN <<87>> ELSE <<100>>]
NoPwaReport == [k \in Categories |-> IF k = "pwa" THEN NoNumber ELSE <<100>>]
LhrReports == {FullReport, NoPwaReport}

ScoresOfNoDefault(lhr) == [k \in Categories |-> lhr[k]]

\* Math.round((categories.x?.score || 0) * 100) for the five categories
ScoresOf(lhr) == [k \in Categories |-> IF IsNull(lhr[k]) THEN <<0>> ELSE lhr[k]]

ResolveFormFactorAsRequested(clientPlatform, requestedFormFactor) ==
  requestedFormFactor

\* function resolveFormFactor(clientPlatform, requestedFormFactor = "mobile")
resolveFormFactor(clientPlatform, requestedFormFactor) ==
  IF clientPlatform = "mobile" THEN "mobile"
  ELSE IF clientPlatform = "desktop" THEN "desktop"
  ELSE requestedFormFactor

\* The engine's reading of the query string:
\* req.query.form_factor === "desktop" ? "desktop" : "mobile"
formFactorOf(query) == IF query = "desktop" THEN "desktop" ELSE "mobile"

\* req.body?.form_factor === "desktop" ? "desktop" : "mobile"
RequestedFF(bodyFormFactor) ==
  IF bodyFormFactor = "desktop" THEN "desktop" ELSE "mobile"

BodyFormFactors == {NULL, "mobile", "desktop"}

\* err.message of what the engine's try block can throw
FailureCauses == {"launch failed", "audit failed", "store error"}

NoRun ==
  [origin |-> "none", timer |-> 0, client |-> 0, formFactor |-> "mobile",
   gpc |-> "idle", outcome |-> "none", epc |-> "idle", auditId |-> 0,
   chrome |-> "none", resp |-> 0, err |-> NULL]

\* Calls are numbered in the order they start; a finished call keeps its record.
FreeRun(r) ==
  /\ runs[r].origin = "none"
  /\ \A q \in RunSlots : q < r => runs[q].origin # "none"

\* The SELECT of runAuditForClient found the client; fetch() sends the request
\* and the engine's handler derives formFactor from the query string.
StartedRun(o, t, c, requested) ==
  [NoRun EXCEPT !.origin = o, !.timer = t, !.client = c,
                !.formFactor =
                   formFactorOf(resolveFormFactor(clients[c].platform, requested)),
                !.gpc = "fetch", !.epc = "insert"]

\* runAuditForClient throws before the fetch.
ThrownRun(o, t, c, msg) ==
  [NoRun EXCEPT !.origin = o, !.timer = t, !.client = c, !.gpc = "done",
                !.outcome = "failed", !.err = msg]

LogFiringErrorAndStop(tms, t) ==
  [tms EXCEPT ![t].failed = @ + 1, ![t].live = FALSE]

\* The catch of the cron callback: console.error, nothing else.
logFiringError(tms, t) == [tms EXCEPT ![t].failed = @ + 1]

\* ------------------------------------------------------------ timer firing

\* A tick of a live task: the callback calls runAuditForClient(clientId), whose
\* default requestedFormFactor is "mobile".
FireRun(r, t) ==
  /\ timers[t].live
  /\ FreeRun(r)
  /\ clients[timers[t].client].present
  /\ runs' = [runs EXCEPT ![r] = StartedRun("firing", t, timers[t].client, "mobile")]
  /\ UNCHANGED <<clients, activeJobs, timers, boot, reqs, lastResp, issued, audits>>

\* The tick's lookup finds no client: "Client not found" is thrown and caught.
FireNotFound(r, t) ==
  /\ timers[t].live
  /\ FreeRun(r)
  /\ ~clients[timers[t].client].present
  /\ runs' = [runs EXCEPT ![r] =
                ThrownRun("firing", t, timers[t].client, "Client not found")]
  /\ timers' = logFiringError(timers, t)
  /\ UNCHANGED <<clients, activeJobs, boot, reqs, lastResp, issued, audits>>

\* The tick's lookup rejects (store error): thrown and caught.
FireLookupFail(r, t) ==
  /\ timers[t].live
  /\ FreeRun(r)
  /\ runs' = [runs EXCEPT ![r] = ThrownRun("firing", t, timers[t].client, "store error")]
  /\ timers' = logFiringError(timers, t)
  /\ UNCHANGED <<clients, activeJobs, boot, reqs, lastResp, issued, audits>>

\* ------------------------------------------- POST /api/clients/:id/audit

ManualRun(r, c, body) ==
  /\ Listening
  /\ FreeRun(r)
  /\ clients[c].present
  /\ runs' = [runs EXCEPT ![r] = StartedRun("manual", 0, c, RequestedFF(body))]
  /\ UNCHANGED <<clients, activeJobs, timers, boot, reqs, lastResp, issued, audits>>

\* No such client: the handler's catch answers 500 "Client not found".
ManualNotFound(r, c) ==
  /\ Listening
  /\ FreeRun(r)
  /\ ~clients[c].present
  /\ runs' = [runs EXCEPT ![r] = ThrownRun("manual", 0, c, "Client not found")]
  /\ lastResp' = Respond("audit", c, 500, "Client not found", FALSE)
  /\ UNCHANGED <<clients, activeJobs, timers, boot, reqs, issued, audits>>

ManualLookupFail(r, c) ==
  /\ Listening
  /\ FreeRun(r)
  /\ runs' = [runs EXCEPT ![r] = ThrownRun("manual", 0, c, "store error")]
  /\ lastResp' = Respond("audit", c, 500, "store error", FALSE)
  /\ UNCHANGED <<clients, activeJobs, timers, boot, reqs, issued, audits>>

\* -------------------------------------------------- the caller's await fetch

\* What the caller does with the outcome: a firing logs a failure, a manual
\* request answers 200 or 500.
Deliver(r, ok, msg) ==
  /\ runs' = [runs EXCEPT ![r].gpc = "done",
                          ![r].outcome = IF ok THEN "ok" ELSE "failed"]
  /\ IF runs[r].origin = "firing"
       THEN /\ timers' = IF ok THEN timers ELSE logFiringError(timers, runs[r].timer)
            /\ UNCHANGED lastResp
       ELSE /\ lastResp' = Respond("audit", runs[r].client,
                                   IF ok THEN 200 ELSE 500, msg, FALSE)
            /\ UNCHANGED timers
  /\ UNCHANGED <<clients, activeJobs, boot, reqs, issued, audits>>

\* The engine's response arrives: data on 2xx, otherwise throw Error(data.error).
RunFetchReturn(r) ==
  /\ runs[r].gpc = "fetch" /\ runs[r].resp # 0
  /\ Deliver(r, runs[r].resp = 200, IF runs[r].resp = 200 THEN "" ELSE runs[r].err)

\* fetch(endpoint, {timeout: 180000}) gives up; the engine is not told.
RunFetchTimeout(r) ==
  /\ runs[r].gpc = "fetch" /\ runs[r].resp = 0
  /\ Deliver(r, FALSE, "network timeout")

\* ----------------------------------------------------- engine: GET /audit

RunningRow(run) ==
  [client |-> run.client, formFactor |-> run.formFactor, status |-> "running",
   scores |-> NoScores, report |-> FALSE, error |-> NULL]

CompletedRow(run, sc) ==
  [client |-> run.client, formFactor |-> run.formFactor, status |-> "completed",
   scores |-> sc, report |-> TRUE, error |-> NULL]

\* GET /audit?url=..&client_id=..&form_factor=.. from a caller other than the
\* GUI; c = 0 stands for a request without client_id.
EngineReceive(r, c, ff) ==
  /\ FreeRun(r)
  /\ runs' = [runs EXCEPT ![r] =
       [NoRun EXCEPT !.origin = "direct", !.client = c,
                     !.formFactor = formFactorOf(ff),
                     !.epc = IF c # 0 THEN "insert" ELSE "audit"]]
  /\ UNCHANGED <<clients, activeJobs, timers, boot, reqs, lastResp, issued, audits>>

EngineStep(r, next) ==
  /\ runs' = [runs EXCEPT ![r] = next]
  /\ UNCHANGED <<clients, activeJobs, timers, boot, reqs, lastResp, issued>>

EngineInsertRunningReusing(r) ==
  /\ runs[r].epc = "insert"
  /\ clients[runs[r].client].present
  /\ LET mine == {i \in DOMAIN audits : /\ audits[i].client = runs[r].client
                                         /\ audits[i].status = "running"}
     IN IF mine = {}
          THEN /\ audits' = Append(audits, RunningRow(runs[r]))
               /\ EngineStep(r, [runs[r] EXCEPT !.auditId = Len(audits) + 1,
                                                !.epc = "audit"])
          ELSE /\ UNCHANGED audits
               /\ EngineStep(r, [runs[r] EXCEPT !.auditId = CHOOSE i \in mine : TRUE,
                                                !.epc = "audit"])

\* INSERT INTO audits (client_id, form_factor, status) VALUES (.., 'running')
EngineInsertRunning(r) ==
  /\ runs[r].epc = "insert"
  /\ clients[runs[r].client].present
  /\ audits' = Append(audits, RunningRow(runs[r]))
  /\ EngineStep(r, [runs[r] EXCEPT !.auditId = Len(audits) + 1, !.epc = "audit"])

\* The INSERT rejects (store error, or no such client): logged, auditId stays null.
EngineInsertRunningFail(r) ==
  /\ runs[r].epc = "insert"
  /\ UNCHANGED audits
  /\ EngineStep(r, [runs[r] EXCEPT !.epc = "audit"])

\* chrome = await chromeLauncher.launch(..): the browser is up while lighthouse
\* runs and while the result is saved.
EngineLaunch(r) ==
  /\ runs[r].epc = "audit" /\ runs[r].chrome = "none"
  /\ UNCHANGED audits
  /\ EngineStep(r, [runs[r] EXCEPT !.chrome = "up"])

\* finally: chrome.kill() when chrome was assigned, that is unless the launch
\* itself is what failed.
ChromeAfter(cause) == IF cause = "launch failed" THEN "none" ELSE "killed"

\* lighthouse() returns lhr, the scores are computed and saved:
\* if (auditId) UPDATE .. status='completed' WHERE id = auditId; then res.json
\* and, in finally, chrome.kill().
EngineSaveUpdate(r, lhr) ==
  /\ runs[r].epc = "audit" /\ runs[r].auditId # 0
  /\ audits' = IF audits[runs[r].auditId].status = "deleted" THEN audits
               ELSE [audits EXCEPT ![runs[r].auditId].scores = ScoresOf(lhr),
                                   ![runs[r].auditId].report = TRUE,
                                   ![runs[r].auditId].status = "completed"]
  /\ EngineStep(r, [runs[r] EXCEPT !.resp = 200, !.epc = "done", !.chrome = "killed"])

\* As above with auditId null: else if (client_id) INSERT .. 'completed'.
EngineSaveInsert(r, lhr) ==
  /\ runs[r].epc = "audit" /\ runs[r].auditId = 0
  /\ runs[r].client # 0 /\ clients[runs[r].client].present
  /\ audits' = Append(audits, CompletedRow(runs[r], ScoresOf(lhr)))
  /\ EngineStep(r, [runs[r] EXCEPT !.auditId = Len(audits) + 1, !.resp = 200,
                                   !.epc = "done", !.chrome = "killed"])

EngineSaveNothingRecording(r) ==
  /\ runs[r].epc = "audit" /\ runs[r].auditId = 0 /\ runs[r].client = 0
  /\ audits' = Append(audits, CompletedRow(runs[r], ScoresOf(FullReport)))
  /\ EngineStep(r, [runs[r] EXCEPT !.auditId = Len(audits) + 1, !.resp = 200,
                                   !.epc = "done", !.chrome = "killed"])

\* As above with neither auditId nor client_id: nothing is saved.
EngineSaveNothing(r) ==
  /\ runs[r].epc = "audit" /\ runs[r].auditId = 0 /\ runs[r].client = 0
  /\ UNCHANGED audits
  /\ EngineStep(r, [runs[r] EXCEPT !.resp = 200, !.epc = "done", !.chrome = "killed"])

EngineCatchNoKill(r, cause) ==
  /\ runs[r].epc = "audit"
  /\ cause = "launch failed" => runs[r].chrome = "none"
  /\ audits' = IF runs[r].auditId = 0 \/ audits[runs[r].auditId].status = "deleted"
                 THEN audits
                 ELSE [audits EXCEPT ![runs[r].auditId].status = "failed",
                                     ![runs[r].auditId].error = cause]
  /\ EngineStep(r, [runs[r] EXCEPT !.resp = 500, !.epc = "done", !.err = cause])

\* The launch, the audit or the saving statement rejects; catch:
\* if (auditId) UPDATE .. status='failed', error_message; res.status(500);
\* finally chrome.kill() when chrome was launched.
EngineCatch(r, cause) ==
  /\ runs[r].epc = "audit"
  /\ cause = "launch failed" => runs[r].chrome = "none"
  /\ audits' = IF runs[r].auditId = 0 \/ audits[runs[r].auditId].status = "deleted"
                 THEN audits
                 ELSE [audits EXCEPT ![runs[r].auditId].status = "failed",
                                     ![runs[r].auditId].error = cause]
  /\ EngineStep(r, [runs[r] EXCEPT !.resp = 500, !.epc = "done", !.err = cause,
                                   !.chrome = ChromeAfter(cause)])

\* As above, and the catch's UPDATE rejects too: .catch(() => {}) swallows it.
EngineCatchWriteFail(r, cause) ==
  /\ runs[r].epc = "audit" /\ runs[r].auditId # 0
  /\ cause = "launch failed" => runs[r].chrome = "none"
  /\ UNCHANGED audits
  /\ EngineStep(r, [runs[r] EXCEPT !.resp = 500, !.epc = "done", !.err = cause,
                                   !.chrome = ChromeAfter(cause)])

\* ------------------------------------------------------------------- spec

Quiet ==
  /\ activeJobs = [c \in ClientIds |-> 0]
  /\ timers = <<>>
  /\ boot = [pc |-> "init", queried |-> FALSE, restored |-> 0]
  /\ reqs = [s \in Slots |-> NoRequest]
  /\ lastResp = NoResponse
  /\ issued = 0
  /\ audits = <<>>
  /\ runs = [r \in RunSlots |-> NoRun]

ClientRows(platforms, schedules, flags) ==
  [present : {TRUE}, platform : platforms, schedule : schedules, enabled : flags]

\* Name and url of the rows a start-up finds: distinct per id, as the UNIQUE
\* constraints of the table demand.
SeedName(c) == "client-" \o ToString(c)
SeedUrl(c) == "https://site-" \o ToString(c) \o ".example"

Identified(cl) ==
  [c \in ClientIds |->
     IF cl[c].present
       THEN [present |-> TRUE, name |-> SeedName(c), url |-> SeedUrl(c),
             platform |-> cl[c].platform, schedule |-> cl[c].schedule,
             enabled |-> cl[c].enabled]
       ELSE NoClient]

\* Stored state at start-up: client 1 exists with any stored schedule, the other
\* ids are unknown or hold an enabled valid schedule.
InitStores ==
  {Identified(cl) :
     cl \in {st \in [ClientIds -> {NoClient} \cup
                                   ClientRows({"both"}, StoredSchedules, BOOLEAN)] :
               /\ st[1].present
               /\ \A c \in ClientIds \ {1} :
                    st[c].present => st[c].schedule = EveryFive /\ st[c].enabled}}

Init == clients \in InitStores /\ Quiet

Handlers ==
  \/ \E c \in ClientIds, e \in RequestExprs : PutScheduleReject(c, e)
  \/ \E s \in Slots, c \in ClientIds, e \in RequestExprs, en \in BOOLEAN :
       PutScheduleUpdate(s, c, e, en)
  \/ \E c \in ClientIds, e \in RequestExprs : PutScheduleUpdateFail(c, e)
  \/ \E s \in Slots : PutScheduleResume(s)
  \/ \E s \in Slots, c \in ClientIds : DeleteScheduleBegin(s, c)
  \/ \E s \in Slots : DeleteScheduleUpdate(s)
  \/ \E s \in Slots : DeleteScheduleUpdateFail(s)
  \/ \E c \in ClientIds : ToggleSelectFail(c)
  \/ \E c \in ClientIds : ToggleNotFound(c)
  \/ \E c \in ClientIds : ToggleNoSchedule(c)
  \/ \E s \in Slots, c \in ClientIds : ToggleSelect(s, c)
  \/ \E s \in Slots : ToggleUpdate(s)
  \/ \E s \in Slots : ToggleUpdateFail(s)
  \/ \E s \in Slots : ToggleResume(s)
  \/ \E s \in Slots, c \in ClientIds : DeleteClientBegin(s, c)
  \/ \E s \in Slots : DeleteClientDelete(s)
  \/ \E s \in Slots : DeleteClientDeleteFail(s)

\* The job registry under start-up and the schedule and client requests.
Next ==
  \/ InitSchedules
  \/ InitSchedulesFail
  \/ Handlers

Spec == Init /\ [][Next]_vars

\* No request of the GUI is awaiting the store.
NoneInFlight == \A s \in Slots : reqs[s].pc = "idle"

\* The same start-up and requests, handled one at a time: a request is received
\* only when no other request is in flight.
SeqNext ==
  \/ InitSchedules
  \/ InitSchedulesFail
  \/ Handlers /\ (NoneInFlight \/ issued' = issued)

SeqSpec == Init /\ [][SeqNext]_vars

\* The registration of clients: start-up on an empty table, then any sequence
\* of POST /api/clients requests.
ClientsInit == clients = [c \in ClientIds |-> NoClient] /\ Quiet

ClientsNext ==
  \/ InitSchedules
  \/ InitSchedulesFail
  \/ \E n \in PostNames, u \in PostUrls, p \in PostPlatforms : PostClientInvalid(n, u, p)
  \/ \E n \in PostNames, u \in PostUrls, p \in PostPlatforms : PostClientBadUrl(n, u, p)
  \/ \E n \in PostNames, u \in PostUrls, p \in PostPlatforms : PostClientInsert(n, u, p)
  \/ \E n \in PostNames, u \in PostUrls, p \in PostPlatforms : PostClientDuplicate(n, u, p)
  \/ \E n \in PostNames, u \in PostUrls, p \in PostPlatforms : PostClientStoreFail(n, u, p)

ClientsSpec == ClientsInit /\ [][ClientsNext]_vars

\* The form factor of an audit: one client of any platform, its ticks, manual
\* runs with any body, and the engine recording the run.
FormFactorStores ==
  {Identified(cl) :
     cl \in {st \in [ClientIds -> {NoClient} \cup
                                   ClientRows(Platforms, {EveryFive}, {TRUE})] :
               st[1].present /\ \A c \in ClientIds \ {1} : ~st[c].present}}

FormFactorInit == clients \in FormFactorStores /\ Quiet

FormFactorNext ==
  \/ InitSchedules
  \/ InitSchedulesFail
  \/ \E r \in RunSlots, t \in DOMAIN timers : FireRun(r, t)
  \/ \E r \in RunSlots, c \in ClientIds, body \in BodyFormFactors : ManualRun(r, c, body)
  \/ \E r \in RunSlots : RunFetchReturn(r)
  \/ \E r \in RunSlots : EngineInsertRunning(r)
  \/ \E r \in RunSlots : EngineInsertRunningFail(r)
  \/ \E r \in RunSlots : EngineSaveUpdate(r, FullReport)
  \/ \E r \in RunSlots : EngineSaveInsert(r, FullReport)

FormFactorSpec == FormFactorInit /\ [][FormFactorNext]_vars

\* The audit path: ticks, manual runs and the engine, together with the
\* schedule request that replaces or stops a timer while audits are in flight.
\* Start-up finds client 1 with an enabled schedule.
AuditStores ==
  {Identified(cl) :
     cl \in {st \in [ClientIds -> {NoClient} \cup
                                   ClientRows({"both"}, {EveryFive}, {TRUE})] :
               st[1].present /\ \A c \in ClientIds \ {1} : ~st[c].present}}

AuditInit == clients \in AuditStores /\ Quiet

AuditNext ==
  \/ InitSchedules
  \/ InitSchedulesFail
  \/ \E s \in Slots, c \in ClientIds, en \in BOOLEAN :
       PutScheduleUpdate(s, c, NightlyAt3, en)
  \/ \E s \in Slots : PutScheduleResume(s)
  \/ \E r \in RunSlots, t \in DOMAIN timers : FireRun(r, t)
  \/ \E r \in RunSlots, t \in DOMAIN timers : FireNotFound(r, t)
  \/ \E r \in RunSlots, t \in DOMAIN timers : FireLookupFail(r, t)
  \/ \E r \in RunSlots, c \in ClientIds : ManualRun(r, c, "desktop")
  \/ \E r \in RunSlots, c \in ClientIds : ManualNotFound(r, c)
  \/ \E r \in RunSlots, c \in ClientIds : ManualLookupFail(r, c)
  \/ \E r \in RunSlots : RunFetchReturn(r)
  \/ \E r \in RunSlots : RunFetchTimeout(r)
  \/ \E r \in RunSlots : EngineInsertRunning(r)
  \/ \E r \in RunSlots : EngineInsertRunningFail(r)
  \/ \E r \in RunSlots : EngineSaveUpdate(r, NoPwaReport)
  \/ \E r \in RunSlots : EngineSaveInsert(r, NoPwaReport)
  \/ \E r \in RunSlots : EngineCatch(r, "audit failed")
  \/ \E r \in RunSlots : EngineCatchWriteFail(r, "audit failed")

AuditSpec == AuditInit /\ [][AuditNext]_vars

\* The engine alone: audit requests from any caller, with every outcome of the
\* browser, of lighthouse and of the store, and the deletion of a client.
EngineNext ==
  \/ InitSchedules
  \/ InitSchedulesFail
  \/ \E r \in RunSlots, c \in ClientIds \cup {0}, ff \in BodyFormFactors :
       EngineReceive(r, c, ff)
  \/ \E r \in RunSlots : EngineInsertRunning(r)
  \/ \E r \in RunSlots : EngineInsertRunningFail(r)
  \/ \E r \in RunSlots : EngineLaunch(r)
  \/ \E r \in RunSlots, lhr \in LhrReports : EngineSaveUpdate(r, lhr)
  \/ \E r \in RunSlots, lhr \in LhrReports : EngineSaveInsert(r, lhr)
  \/ \E r \in RunSlots : EngineSaveNothing(r)
  \/ \E r \in RunSlots, cause \in FailureCauses : EngineCatch(r, cause)
  \/ \E r \in RunSlots, cause \in FailureCauses : EngineCatchWriteFail(r, cause)
  \/ \E s \in Slots, c \in ClientIds : DeleteClientBegin(s, c)
  \/ \E s \in Slots : DeleteClientDelete(s)

EngineSpec == AuditInit /\ [][EngineNext]_vars

\* ================================================================ claims

LiveTimersOf(tms, c) == {t \in DOMAIN tms : tms[t].client = c /\ tms[t].live}

\* C1: in every reachable state each client id has at most one live timer, and
\* every live timer is the task stored in activeJobs under its client id (and
\* every entry of activeJobs is a live timer of that client).
C1_AtMostOneLiveTimer ==
  /\ \A t \in DOMAIN timers : timers[t].live => activeJobs[timers[t].client] = t
  /\ \A c \in ClientIds :
       activeJobs[c] # 0 =>
         /\ activeJobs[c] \in DOMAIN timers
         /\ timers[activeJobs[c]].client = c
         /\ timers[activeJobs[c]].live

\* Two PUT schedule requests for one client overlapped: the second was received
\* while the first awaited the store; the first has installed its timer and the
\* second is about to call startJob.
C1_Witness ==
  /\ reqs[1] = NoRequest
  /\ reqs[2].kind = "put" /\ reqs[2].pc = "resume" /\ reqs[2].enabled
  /\ lastResp.kind = "put" /\ lastResp.status = 200
  /\ lastResp.client = reqs[2].client
  /\ activeJobs[reqs[2].client] # 0

C2_ReplaceStep(s) ==
  LET c == reqs[s].client
      old == activeJobs[c]
  IN (/\ reqs[s].pc = "resume" /\ reqs'[s].pc = "idle"
      /\ reqs[s].enabled /\ CronValidate(reqs[s].expr)
      /\ old # 0 /\ timers[old].expr # reqs[s].expr)
     => /\ ~timers'[old].live
        /\ LiveTimersOf(timers', c) = {activeJobs'[c]}
        /\ timers'[activeJobs'[c]].expr = reqs[s].expr

\* C2: a startJob(id, e2) that follows a startJob(id, e1) with another valid
\* expression leaves exactly one live timer for id, the one created with e2,
\* and the timer created with e1 is stopped.
C2_SecondStartWins == [][\A s \in Slots : C2_ReplaceStep(s)]_vars

\* A client whose timer was started twice: the first task is stopped, the
\* second, with the other expression, is the one in activeJobs.
C2_Witness ==
  \E c \in ClientIds : \E t1, t2 \in DOMAIN timers :
    /\ timers[t1].client = c /\ ~timers[t1].live
    /\ activeJobs[c] = t2 /\ timers[t2].live
    /\ timers[t1].expr # timers[t2].expr
    /\ lastResp.status = 200 /\ lastResp.client = c /\ lastResp.jobActive

\* C3: a startJob with a malformed expression throws before any state change:
\* activeJobs and the timers are as before the call.
C3_InvalidStartChangesNothing ==
  [][\A s \in Slots :
       (/\ reqs[s].pc = "resume" /\ reqs'[s].pc = "idle"
        /\ reqs[s].enabled /\ ~CronValidate(reqs[s].expr))
       => (activeJobs' = activeJobs /\ timers' = timers)]_vars

ShouldRestore(c) ==
  /\ clients[c].present /\ clients[c].schedule # NULL /\ clients[c].enabled
  /\ CronValidate(clients[c].schedule)

BootStep == boot.pc = "init" /\ boot'.pc = "listening"

\* C4 as stated: initSchedules on the empty registry leaves active exactly the
\* clients whose stored schedule is non-null, enabled and valid.
C4_RecoverExactly ==
  [][BootStep => \A c \in ClientIds : isActive(activeJobs', c) <=> ShouldRestore(c)]_vars

\* C4 as amended: initSchedules never throws (start-up always goes on to
\* listen); when its query succeeds it leaves active exactly the clients whose
\* stored schedule is non-null, enabled and valid, each under its stored
\* expression, an invalid stored expression being skipped; when its query
\* fails it starts no job.
C4_RecoverExactlyWhenQueried ==
  [][BootStep =>
       \A c \in ClientIds :
         /\ isActive(activeJobs', c) <=> (boot'.queried /\ ShouldRestore(c))
         /\ isActive(activeJobs', c) =>
              /\ timers'[activeJobs'[c]].live
              /\ timers'[activeJobs'[c]].expr = clients[c].schedule]_vars

\* Start-up is through: a client with an invalid stored expression was skipped
\* and a client after it was started.
C4_Witness ==
  /\ boot.pc = "listening" /\ boot.queried /\ issued = 0
  /\ \E c1, c2 \in ClientIds :
       /\ c1 < c2
       /\ clients[c1].enabled /\ clients[c1].schedule = NotACron
       /\ ~isActive(activeJobs, c1)
       /\ isActive(activeJobs, c2)

\* C5: the count initSchedules logs is the number of jobs it restored, the
\* number of timers active when it finishes.
C5_CountIsRestoredJobs ==
  [][(BootStep /\ boot'.queried) =>
       boot'.restored = Cardinality({c \in ClientIds : isActive(activeJobs', c)})]_vars

\* C6: a failure inside a firing is caught in the callback: the step that logs
\* it stops no timer and leaves activeJobs as it is, however many failures the
\* timer has logged; a timer stops being live only in the step of a request
\* that calls stopJob or a replacing startJob for its client.
C6_FiringFailureKeepsTimer ==
  [][\A t \in DOMAIN timers :
       /\ timers'[t].failed > timers[t].failed =>
            /\ activeJobs' = activeJobs
            /\ \A u \in DOMAIN timers : timers'[u].live = timers[u].live
       /\ (timers[t].live /\ ~timers'[t].live) =>
            \E s \in Slots : /\ reqs[s].pc = "resume" /\ reqs'[s].pc = "idle"
                             /\ reqs[s].client = timers[t].client]_vars

\* Two firings of one timer have failed and the timer is still live and
\* registered.
C6_Witness ==
  \E t \in DOMAIN timers :
    /\ timers[t].failed >= 2
    /\ timers[t].live
    /\ activeJobs[timers[t].client] = t

\* The engine is working on the run's audit request.
AuditInFlight(r) == runs[r].epc \in {"insert", "audit"}

FiringsOverlap(r1, r2) ==
  /\ r1 # r2
  /\ runs[r1].origin = "firing" /\ runs[r2].origin = "firing"
  /\ runs[r1].client = runs[r2].client
  /\ AuditInFlight(r1) /\ AuditInFlight(r2)

\* C7 as stated: no two firings of one client have their audits in flight at
\* the same time.
C7_NoConcurrentFiringAudits ==
  \A r1, r2 \in RunSlots : ~FiringsOverlap(r1, r2)

\* C7 as amended: replace-before-insert keeps the ticks of one client from
\* coming from two live timers: when the audits of two firings of a client are
\* in flight together, they are ticks of the same timer or the timer of one of
\* them has been stopped since its tick.
C7_OverlapNeverFromTwoLiveTimers ==
  \A r1, r2 \in RunSlots :
    FiringsOverlap(r1, r2) =>
      \/ runs[r1].timer = runs[r2].timer
      \/ ~timers[runs[r1].timer].live
      \/ ~timers[runs[r2].timer].live

\* The audit of a tick of the replaced timer and the audit of a tick of the
\* replacing timer are in flight together.
C7_Witness ==
  \E r1, r2 \in RunSlots :
    /\ FiringsOverlap(r1, r2)
    /\ runs[r1].timer # runs[r2].timer
    /\ ~timers[runs[r1].timer].live
    /\ timers[runs[r2].timer].live

RowOf(r) == audits[runs[r].auditId]

\* C8: stopJob and a replacing startJob cancel future ticks only: the step that
\* stops a timer leaves the calls its ticks started and the audit rows as they
\* are, the engine can still end such an audit, and once it has ended the
\* outcome is in the audit's row (completed on success; on failure failed, or
\* still running when the engine's own failed-UPDATE was rejected).
C8_StopKeepsInFlightAudit ==
  /\ [][\A r \in RunSlots :
          (/\ runs[r].origin = "firing"
           /\ timers[runs[r].timer].live /\ ~timers'[runs[r].timer].live)
          => (runs'[r] = runs[r] /\ audits' = audits)]_vars
  /\ [](\A r \in RunSlots :
          (runs[r].origin = "firing" /\ ~timers[runs[r].timer].live) =>
            /\ (runs[r].epc = "audit") => ENABLED EngineCatch(r, "audit failed")
            /\ (runs[r].epc = "audit" /\ runs[r].auditId # 0) =>
                 ENABLED EngineSaveUpdate(r, NoPwaReport)
            /\ (runs[r].epc = "done" /\ runs[r].auditId # 0) =>
                 /\ runs[r].resp = 200 => RowOf(r).status = "completed"
                 /\ runs[r].resp = 500 => RowOf(r).status \in {"failed", "running"})

\* The timer was stopped while the audit of one of its ticks is in flight, its
\* row still running.
C8_Witness ==
  \E r \in RunSlots :
    /\ runs[r].origin = "firing"
    /\ ~timers[runs[r].timer].live
    /\ runs[r].epc = "audit" /\ runs[r].auditId # 0
    /\ RowOf(r).status = "running"

\* C9: a manual run and a firing of one client are not serialized, and every
\* audit writes a row of its own: no two calls share an audit row, and a call's
\* row carries its client and form factor, is running while its audit is in
\* flight and completed once the engine has answered 200.
C9_EachAuditOwnsItsRow ==
  /\ \A r1, r2 \in RunSlots :
       (r1 # r2 /\ runs[r1].auditId # 0 /\ runs[r2].auditId # 0) =>
         runs[r1].auditId # runs[r2].auditId
  /\ \A r \in RunSlots :
       runs[r].auditId # 0 =>
         /\ RowOf(r).client = runs[r].client
         /\ RowOf(r).formFactor = runs[r].formFactor
         /\ AuditInFlight(r) => RowOf(r).status = "running"
         /\ runs[r].resp = 200 => RowOf(r).status = "completed"

\* A manual run and a firing of the same client are in flight at once, each
\* with its own running row.
C9_Witness ==
  \E r1, r2 \in RunSlots :
    /\ runs[r1].origin = "manual" /\ runs[r2].origin = "firing"
    /\ runs[r1].client = runs[r2].client
    /\ runs[r1].epc = "audit" /\ runs[r2].epc = "audit"
    /\ runs[r1].auditId # 0 /\ runs[r2].auditId # 0
    /\ runs[r1].auditId # runs[r2].auditId
    /\ RowOf(r1).status = "running" /\ RowOf(r2).status = "running"

AllScoresNull(row) == \A k \in Categories : IsNull(row.scores[k])
AllScoresSet(row) == \A k \in Categories : ~IsNull(row.scores[k])

\* A row changes at most once, from running to completed or failed, and not
\* after that (a row removed by the cascade of a client's deletion is gone).
RowChangesOnce(i) ==
  (i \in DOMAIN audits /\ audits'[i] # audits[i] /\ audits'[i].status # "deleted")
  => /\ audits[i].status = "running"
     /\ audits'[i].status \in {"completed", "failed"}

RowShape(row) ==
  /\ row.status = "running" => AllScoresNull(row)
  /\ row.status = "completed" => AllScoresSet(row) /\ row.report
  /\ row.status = "failed" => row.error # NULL /\ AllScoresNull(row)

\* C10 as stated: every audit row starts in status running with the five
\* scores null, changes status at most once (to completed or failed) and is
\* not modified after that; a completed row has the five scores and a report,
\* a failed row an error message and no scores.
C10_RowLifecycle ==
  [][\A i \in DOMAIN audits' :
       /\ i \notin DOMAIN audits =>
            audits'[i].status = "running" /\ AllScoresNull(audits'[i])
       /\ RowChangesOnce(i)
       /\ RowShape(audits'[i])]_vars

\* C10 as amended: a row starts in status running with the five scores null,
\* except the row of a request whose first INSERT was rejected, which is
\* inserted when the audit has succeeded, in status completed with the five
\* scores and the report; the rest as stated.
C10_RowLifecycleWithLateInsert ==
  [][\A i \in DOMAIN audits' :
       /\ i \notin DOMAIN audits =>
            \/ audits'[i].status = "running" /\ AllScoresNull(audits'[i])
            \/ /\ audits'[i].status = "completed"
               /\ \E r \in RunSlots : /\ runs[r].epc = "audit" /\ runs[r].auditId = 0
                                      /\ runs'[r].auditId = i
       /\ RowChangesOnce(i)
       /\ RowShape(audits'[i])]_vars

\* One row has gone from running to completed, with a score of 0 for the
\* category its report lacks, and another from running to failed.
C10_Witness ==
  \E i, j \in DOMAIN audits :
    /\ audits[i].status = "completed" /\ audits[i].report
    /\ audits[i].scores["pwa"] = <<0>>
    /\ audits[j].status = "failed" /\ audits[j].error = "audit failed"
    /\ AllScoresNull(audits[j])

\* C11: once the engine's audit request has finished (with success, or with a
\* failure of the launch, of the audit or of a store write), the row it created
\* in status running is no longer running.
C11_FinishedRequestLeavesNoRunningRow ==
  \A r \in RunSlots :
    (runs[r].epc = "done" /\ runs[r].auditId # 0) => RowOf(r).status # "running"

\* The engine's request acts for a call that carries no client_id.
ActsWithoutClientId(r) ==
  /\ runs'[r] # runs[r]
  /\ runs'[r].origin = "direct" /\ runs'[r].client = 0

\* C12 as stated: an audit request without client id writes no row before the
\* audit completes and records a row when it completes successfully.
C12_NoClientIdRecordedOnCompletion ==
  [][\A r \in RunSlots :
       ActsWithoutClientId(r) =>
         /\ runs'[r].resp # 200 => audits' = audits
         /\ runs'[r].resp = 200 =>
              /\ Len(audits') = Len(audits) + 1
              /\ runs'[r].auditId = Len(audits')]_vars

\* C12 as amended: an audit request without client id writes no row at any
\* point, neither before the audit completes nor when it completes
\* successfully nor when it fails; its answer carries no audit id.
C12_NoClientIdWritesNoRow ==
  [][\A r \in RunSlots :
       ActsWithoutClientId(r) => (audits' = audits /\ runs'[r].auditId = 0)]_vars

\* An audit requested without client id has completed successfully, the browser
\* is gone, and the audits table is still empty.
C12_Witness ==
  \E r \in RunSlots :
    /\ runs[r].origin = "direct" /\ runs[r].client = 0
    /\ runs[r].epc = "done" /\ runs[r].resp = 200
    /\ runs[r].chrome = "killed" /\ runs[r].auditId = 0
    /\ audits = <<>>

\* Request kind k in slot s answers 200 in this step, for a client that exists.
Succeeds(s, k) ==
  /\ reqs[s].kind = k /\ reqs[s].pc # "idle" /\ reqs'[s].pc = "idle"
  /\ lastResp'.kind = k /\ lastResp'.status = 200
  /\ clients'[reqs[s].client].present

\* The registry follows the store for client c.
FollowsStore(jobs, cl, c) ==
  isActive(jobs, c) <=> (cl[c].present /\ cl[c].schedule # NULL /\ cl[c].enabled)

ScheduleKinds == {"put", "delSchedule", "toggle"}

\* C13: a schedule request for an existing client that is handled without
\* overlap and answers 200 leaves the job state following the stored state:
\* after PUT isActive(id) is the enabled value and the expression is stored,
\* after DELETE schedule the expression is null, enabled is false and the job
\* is inactive, after PATCH toggle the stored flag is the negation of the flag
\* the request found and isActive(id) is the new flag; so at the quiescent
\* point after such a request isActive(id) holds exactly when the stored
\* schedule is non-null and enabled.
C13_JobFollowsStoreWhenSequential ==
  /\ [][\A s \in Slots :
          LET c == reqs[s].client IN
          /\ Succeeds(s, "put") =>
               /\ isActive(activeJobs', c) <=> reqs[s].enabled
               /\ clients'[c].schedule = reqs[s].expr
               /\ clients'[c].enabled = reqs[s].enabled
               /\ reqs[s].enabled => timers'[activeJobs'[c]].expr = reqs[s].expr
          /\ Succeeds(s, "delSchedule") =>
               /\ clients'[c].schedule = NULL /\ ~clients'[c].enabled
               /\ ~isActive(activeJobs', c)
          /\ (reqs[s].kind = "toggle" /\ reqs[s].pc = "update" /\ reqs'[s].pc = "resume") =>
               clients'[c].enabled = ~clients[c].enabled
          /\ Succeeds(s, "toggle") =>
               /\ clients'[c].enabled = reqs[s].enabled
               /\ isActive(activeJobs', c) <=> reqs[s].enabled]_vars
  /\ []((/\ NoneInFlight
         /\ lastResp.kind \in ScheduleKinds /\ lastResp.status = 200
         /\ clients[lastResp.client].present)
        => FollowsStore(activeJobs, clients, lastResp.client))

\* Two schedule requests were handled one after the other; the second, a
\* toggle, switched the stored flag back on and the job is active again.
C13_Witness ==
  /\ NoneInFlight /\ issued = 2
  /\ lastResp.kind = "toggle" /\ lastResp.status = 200 /\ lastResp.jobActive
  /\ clients[lastResp.client].enabled
  /\ isActive(activeJobs, lastResp.client)
  /\ \E t \in DOMAIN timers : timers[t].client = lastResp.client /\ ~timers[t].live

\* C14: when DELETE /api/clients/:id answers 200 for a client that had an
\* active timer (which the request stopped before the store deleted the
\* client), no timer is active for the id, the client's row is gone and no
\* audit row of the client remains.
C14_DeleteClientLeavesNothing ==
  [][\A s \in Slots :
       LET c == reqs[s].client IN
       (/\ reqs[s].kind = "delClient" /\ reqs[s].pc = "delete" /\ reqs'[s].pc = "idle"
        /\ lastResp'.status = 200
        /\ \E t \in DOMAIN timers : timers[t].client = c /\ ~timers[t].live)
       => /\ ~isActive(activeJobs', c)
          /\ LiveTimersOf(timers', c) = {}
          /\ ~clients'[c].present
          /\ \A i \in DOMAIN audits' : audits'[i].client # c]_vars

Stored(cl) == {c \in ClientIds : cl[c].present}

FormFactors == {"mobile", "desktop"}

\* C16: resolveFormFactor(platform, requested) is platform when platform is
\* mobile or desktop, whatever is requested, and requested when platform is
\* both; for every platform and every request a caller makes (a manual run's
\* body, a firing's default mobile) the result is mobile or desktop, and it is
\* the form factor of the call's audit request and of the row recorded for it.
C16_ResolveFormFactor ==
  /\ [](/\ \A p \in FormFactors, f \in BodyFormFactors \cup {"tablet"} :
             resolveFormFactor(p, f) = p
        /\ \A f \in FormFactors : resolveFormFactor("both", f) = f
        /\ \A p \in Platforms, body \in BodyFormFactors :
             /\ resolveFormFactor(p, RequestedFF(body)) \in FormFactors
             /\ resolveFormFactor(p, "mobile") \in FormFactors
        /\ \A r \in RunSlots :
             runs[r].origin \in {"firing", "manual"} =>
               LET p == clients[runs[r].client].platform IN
               /\ runs[r].formFactor \in FormFactors
               /\ p \in FormFactors => runs[r].formFactor = p
               /\ (p = "both" /\ runs[r].origin = "firing") => runs[r].formFactor = "mobile"
               /\ runs[r].auditId # 0 => RowOf(r).formFactor = runs[r].formFactor)
  /\ [][\A r \in RunSlots, c \in ClientIds, body \in BodyFormFactors :
          (ManualRun(r, c, body) /\ clients[c].platform = "both") =>
            runs'[r].formFactor = (IF body = "desktop" THEN "desktop" ELSE "mobile")]_vars

\* A tick (which requests the default, mobile) of a desktop client has been
\* audited and its completed row says desktop; a manual run of the same client
\* is recorded as desktop too.
C16_Witness ==
  \E r1, r2 \in RunSlots :
    /\ runs[r1].origin = "firing" /\ runs[r2].origin = "manual"
    /\ clients[runs[r1].client].platform = "desktop"
    /\ runs[r1].client = runs[r2].client
    /\ runs[r1].auditId # 0 /\ runs[r2].auditId # 0
    /\ RowOf(r1).formFactor = "desktop" /\ RowOf(r1).status = "completed"
    /\ RowOf(r2).formFactor = "desktop"

\* The call of runAuditForClient has failed at its caller and the engine has
\* finished with the request.
FailedAtOrchestrator(r) ==
  /\ runs[r].origin \in {"firing", "manual"}
  /\ runs[r].gpc = "done" /\ runs[r].outcome = "failed"
  /\ runs[r].epc = "done"

\* C17: when an audit invocation fails at the orchestrator (the engine answers
\* with an error, or the caller's timeout expires) the run's row ends in status
\* failed with the error message; the step in which the call fails answers a
\* manual caller with an error and, for a firing, only logs.
C17_OrchestratorFailureMarksRunFailed ==
  /\ [](\A r \in RunSlots :
          (FailedAtOrchestrator(r) /\ runs[r].auditId # 0) =>
            (RowOf(r).status = "failed" /\ RowOf(r).error # NULL))
  /\ [][\A r \in RunSlots :
          (runs[r].gpc = "fetch" /\ runs'[r].gpc = "done" /\ runs'[r].outcome = "failed") =>
            IF runs[r].origin = "manual"
              THEN lastResp'.kind = "audit" /\ lastResp'.status = 500
              ELSE /\ lastResp' = lastResp
                   /\ timers'[runs[r].timer].failed = timers[runs[r].timer].failed + 1]_vars

OthersUntouched(jobs1, tms1, jobs2, tms2, c) ==
  /\ Len(tms2) = Len(tms1)
  /\ \A d \in ClientIds \ {c} : jobs2[d] = jobs1[d]
  /\ \A t \in DOMAIN tms1 : tms1[t].client # c => tms2[t] = tms1[t]

\* C19: in every reachable registry, stopJob(id) leaves isActive(id) false and
\* the timer of id stopped, a second stopJob(id) changes nothing, stopJob on an
\* id without entry changes nothing, and the timers of every other id are
\* untouched; the same holds of the steps of the handlers that call stopJob on
\* receiving a request.
C19_StopIdempotent ==
  /\ [](\A c \in ClientIds :
          LET once == stopJob(activeJobs, timers, c)
              twice == stopJob(once.jobs, once.tms, c)
          IN /\ ~isActive(once.jobs, c)
             /\ LiveTimersOf(once.tms, c) \subseteq LiveTimersOf(timers, c) \ {activeJobs[c]}
             /\ twice = once
             /\ ~isActive(activeJobs, c) => (once.jobs = activeJobs /\ once.tms = timers)
             /\ OthersUntouched(activeJobs, timers, once.jobs, once.tms, c))
  /\ [][\A s \in Slots :
          (reqs[s].pc = "idle" /\ reqs'[s].kind \in {"delSchedule", "delClient"}) =>
            LET c == reqs'[s].client IN
            /\ ~isActive(activeJobs', c)
            /\ ~isActive(activeJobs, c) => (activeJobs' = activeJobs /\ timers' = timers)
            /\ OthersUntouched(activeJobs, timers, activeJobs', timers', c)]_vars

\* A DELETE schedule has stopped the timer of a client and answered; a second
\* DELETE schedule for the same client has called stopJob again and awaits the
\* store, while the timer of another client is still live.
C19_Witness ==
  /\ reqs[1].kind = "delSchedule" /\ reqs[1].pc = "update"
  /\ lastResp.kind = "delSchedule" /\ lastResp.status = 200
  /\ lastResp.client = reqs[1].client
  /\ \E t \in DOMAIN timers : timers[t].client = reqs[1].client /\ ~timers[t].live
  /\ \E d \in ClientIds \ {reqs[1].client} :
       isActive(activeJobs, d) /\ timers[activeJobs[d]].live

\* C20: once schedule requests for a client that overlapped have all completed
\* (none is in flight and the last of them has answered 200 for a stored
\* client), the registry agrees with the store: a timer is active for the id
\* exactly when the stored schedule is non-null and enabled, and it was started
\* with the stored expression.
C20_RegistryAgreesAfterOverlap ==
  (/\ NoneInFlight
   /\ lastResp.kind \in ScheduleKinds /\ lastResp.status = 200
   /\ clients[lastResp.client].present)
  => /\ FollowsStore(activeJobs, clients, lastResp.client)
     /\ isActive(activeJobs, lastResp.client) =>
          timers[activeJobs[lastResp.client]].expr = clients[lastResp.client].schedule

\* C21: the registry never holds an active timer for a client id that is not
\* in the store: no request installs a timer for an unknown id and no timer of
\* an id survives the deletion of its client.
C21_NoTimerForUnknownClient ==
  \A c \in ClientIds : isActive(activeJobs, c) => clients[c].present

\* C22: a schedule or client request that answers 500 because its store call
\* failed leaves the set of active timers as it was before the request; stated
\* for the first request after a start-up whose query succeeded, before which
\* the active timers are those of the stored valid enabled schedules, which the
\* failed request has not changed.
C22_StoreFailureLeavesRegistry ==
  (/\ NoneInFlight /\ issued = 1 /\ boot.queried
   /\ lastResp.kind \in ScheduleKinds \cup {"delClient"}
   /\ lastResp.status = 500 /\ lastResp.error = "store error")
  => \A c \in ClientIds : isActive(activeJobs, c) <=> ShouldRestore(c)

====
